---- MODULE Spec2Model ----
(***************************************************************************)
(* Model of the Sleep.me thermostat integration: the typed API client      *)
(* (api.py), the polling coordinator that owns the device cache            *)
(* (coordinator.py) and the entities that forward commands to it           *)
(* (climate.py, binary_sensor.py).                                         *)
(*                                                                         *)
(* Python's asyncio runs one task at a time and switches tasks only at an  *)
(* await, so every action below is the code between two awaits.            *)
(*                                                                         *)
(* Records are the dict-shaped values the coordinator works on             *)
(* (`_devices: list[dict]`, `{**device, **data}`, `status.model_dump()`);  *)
(* a record's kind is its set of field names.  Only the fields read by the *)
(* entities are kept: control = set_temperature_f, thermal_control_status; *)
(* status = is_connected, is_water_low, water_temperature_f.               *)
(***************************************************************************)
EXTENDS Integers, Sequences, FiniteSets, TLC

VARIABLES
    client,     \* which client config_entry.runtime_data.client is
    remote,     \* the device collection the remote service holds now
    limiter,    \* RateLimiter: the requests recorded within its trailing window
    devices,    \* SleepmeDataUpdateCoordinator._devices (NoDevices before setup)
    data,       \* DataUpdateCoordinator.data, the cache (NoneVal before the first refresh)
    cycle,      \* the refresh cycle: Idle, Halted or Fetching, and the position in _async_update_data
    pending,    \* mutation calls awaiting the client's answer
    target,     \* SleepmeClimate._target_temperature of each climate entity, by
                \* device id (NoneVal until the entities are created)
    ev          \* what the last step did: request, answer, exception raised,
                \* cache entries changed, notifications made

vars == <<client, remote, limiter, devices, data, cycle, pending, target, ev>>

(***************************************************************************)
(* Bounds                                                                  *)
(***************************************************************************)
MaxPending == 1     \* mutation calls in flight at the same time

(***************************************************************************)
(* Values                                                                  *)
(***************************************************************************)
NoneVal == [none |-> TRUE]
NoDevices == <<NoneVal>>      \* _devices before _async_setup has set it

\* Exception classes of api.py and the ones the coordinator can raise.
ApiError == "SleepmeApiClientError"
CommunicationError == "SleepmeApiClientCommunicationError"
AuthenticationError == "SleepmeApiClientAuthenticationError"
RateLimitError == "SleepmeApiClientRateLimitError"
ClassifiedErrors == {ApiError, CommunicationError, AuthenticationError, RateLimitError}

CapabilityTag == "CHILIPAD_PRO"

\* The remote's device collection: two eligible devices and one without the tag.
DevA == [id |-> "d1", name |-> "Bed", attachments |-> <<CapabilityTag>>]
DevB == [id |-> "d2", name |-> "Guest", attachments |-> <<"DOCK", CapabilityTag>>]
DevC == [id |-> "d3", name |-> "Old", attachments |-> <<>>]
RemoteCollections == {<<DevA, DevC, DevB>>, <<DevB>>}

\* The arguments of the mutation calls.  The server's answer is its own
\* record: it may or may not carry the requested value.
RequestedTemperatures == {72}
RequestedModes == {"active"}

ControlRecords ==
    { [set_temperature_f |-> 70, thermal_control_status |-> "standby"],
      [set_temperature_f |-> 72, thermal_control_status |-> "active"] }
StatusRecords ==
    { [is_connected |-> TRUE, is_water_low |-> FALSE, water_temperature_f |-> 68],
      [is_connected |-> FALSE, is_water_low |-> TRUE, water_temperature_f |-> 75] }
AboutRecords == { [model |-> "DP", firmware_version |-> "1"] }
StateRecords ==
    { [ about |-> [model |-> "DP", firmware_version |-> "1"],
        control |-> [set_temperature_f |-> 70, thermal_control_status |-> "standby"],
        status |-> [is_connected |-> TRUE, is_water_low |-> FALSE,
                    water_temperature_f |-> 68] ],
      [ about |-> [model |-> "DP", firmware_version |-> "1"],
        control |-> [set_temperature_f |-> 72, thermal_control_status |-> "active"],
        status |-> [is_connected |-> FALSE, is_water_low |-> TRUE,
                    water_temperature_f |-> 75] ] }

\* The record shapes api_wrapper is asked to validate against.  The remote
\* sends the device collection as a JSON list, which SleepmeDevices'
\* validate_devices wraps as {"devices": list}.
ModelRecords(model) ==
    IF model = "SleepmeDevices" THEN { [devices |-> c] : c \in RemoteCollections }
    ELSE IF model = "SleepmeDeviceState" THEN StateRecords
    ELSE ControlRecords

Malformed == [malformed |-> TRUE]

(***************************************************************************)
(* api.py: the client                                                      *)
(***************************************************************************)

\* RateLimiter (rate_limiter.py): at most MaxRequests requests are permitted
\* within the trailing window.  can_send_request permits and records the
\* attempt while fewer are recorded, and denies otherwise.
MaxRequests == 1
CanSendRequest(recorded) == recorded < MaxRequests
RecordRequest(recorded) == IF recorded < MaxRequests THEN recorded + 1 ELSE recorded

\* LimiterGate, had a denial kept the request from being sent.
LimiterGateEnforced(allowed) == allowed

\* Whether api_wrapper goes on to send the request after the limiter's
\* verdict: a denial is logged and nothing else.
LimiterGate(allowed) == TRUE

\* api_wrapper up to its await: the limiter is consulted, then the request
\* is handed to the session.
SendRequest(recorded) ==
    [ limiterChecks |-> 1,
      allowed  |-> CanSendRequest(recorded),
      requests |-> IF LimiterGate(CanSendRequest(recorded)) THEN 1 ELSE 0,
      limiter  |-> RecordRequest(recorded) ]

\* What the transport can hand to api_wrapper for one request: a response
\* (status and body), expiry of async_timeout.timeout(10), a connection
\* failure (an aiohttp.ClientError) or a DNS failure (socket.gaierror).
\* Among the statuses is 300, one of the 3xx statuses the session does not
\* follow as a redirect and hands back to api_wrapper like any response.
ErrorStatuses == {401, 403, 429, 500}
UnfollowedStatuses == {300}
HttpOutcomes(model) ==
    { [kind |-> "response", status |-> s, body |-> b] :
          s \in {200} \cup UnfollowedStatuses,
          b \in ModelRecords(model) \cup {Malformed} }
    \cup { [kind |-> "response", status |-> s, body |-> Malformed] : s \in ErrorStatuses }
    \cup { [kind |-> k, status |-> 0, body |-> Malformed] :
          k \in {"timeout", "connection", "dns"} }

\* _verify_response_or_raise: the exception it raises for a status, or "none".
VerifyResponseOrRaise(status) ==
    IF status \in {401, 403} THEN AuthenticationError
    ELSE IF status = 429 THEN RateLimitError
    ELSE IF status >= 400 THEN "ClientResponseError"     \* response.raise_for_status()
    ELSE "none"

\* response_model.model_validate_json(content): strict, a mismatch raises.
ModelValidateJson(model, body) ==
    IF body \in ModelRecords(model) THEN "none" ELSE "ValidationError"

\* The exception raised inside api_wrapper's try block, or "none".
RaisedInTry(model, outcome) ==
    IF outcome.kind = "timeout" THEN "TimeoutError"
    ELSE IF outcome.kind = "connection" THEN "ClientConnectorError"
    ELSE IF outcome.kind = "dns" THEN "gaierror"
    ELSE IF VerifyResponseOrRaise(outcome.status) # "none"
         THEN VerifyResponseOrRaise(outcome.status)
    ELSE ModelValidateJson(model, outcome.body)

\* aiohttp.ClientError and its subclasses.
AiohttpClientErrors == {"ClientError", "ClientConnectorError", "ClientResponseError"}

\* api_wrapper's except clauses, tried in order.  The exceptions raised by
\* _verify_response_or_raise are raised inside the try block and are neither
\* TimeoutError nor aiohttp.ClientError nor socket.gaierror, so the last
\* clause, `except Exception`, catches them.
ExceptClauses(exc) ==
    IF exc = "TimeoutError" THEN CommunicationError
    ELSE IF exc \in AiohttpClientErrors \cup {"gaierror"} THEN CommunicationError
    ELSE ApiError

Ok(value) == [ok |-> TRUE, value |-> value, error |-> "none"]
Err(error) == [ok |-> FALSE, value |-> NoneVal, error |-> error]

\* api_wrapper: the parsed record, or the exception that leaves it.
ApiWrapper(model, outcome) ==
    IF RaisedInTry(model, outcome) = "none"
    THEN Ok(outcome.body)
    ELSE Err(ExceptClauses(RaisedInTry(model, outcome)))

\* SleepmeDevice.is_chilipad_pro
IsChilipadPro(device) ==
    \E i \in 1..Len(device.attachments) : device.attachments[i] = CapabilityTag

\* EligibleDevices, had the device list been returned as the remote sent it.
EligibleDevicesUnfiltered(collection) == collection

\* The list comprehension of async_get_devices.
EligibleDevices(collection) == SelectSeq(collection, IsChilipadPro)

AsyncGetDevices(outcome) ==
    IF ApiWrapper("SleepmeDevices", outcome).ok
    THEN Ok(EligibleDevices(ApiWrapper("SleepmeDevices", outcome).value.devices))
    ELSE ApiWrapper("SleepmeDevices", outcome)

AsyncGetDeviceState(outcome) == ApiWrapper("SleepmeDeviceState", outcome)
AsyncSetDeviceTemperature(outcome) == ApiWrapper("SleepmeDeviceControl", outcome)
AsyncSetDeviceMode(outcome) == ApiWrapper("SleepmeDeviceControl", outcome)

\* The coordinator uses whatever client the config entry carries: the real
\* SleepmeApiClient, or a stand-in whose methods return a record of the right
\* shape or raise any of the four classified errors.
Clients == {"SleepmeApiClient", "stub"}
StubResults(model) ==
    { Ok(r) : r \in ModelRecords(model) } \cup { Err(e) : e \in ClassifiedErrors }
StubDeviceLists == { Ok(EligibleDevices(c)) : c \in RemoteCollections }
                       \cup { [Err(e) EXCEPT !.value = <<>>] : e \in ClassifiedErrors }

\* The answers one call of a client method can get, and the method's result.
Answers(c, model) ==
    IF c = "SleepmeApiClient" THEN HttpOutcomes(model)
    ELSE IF model = "SleepmeDevices" THEN StubDeviceLists
    ELSE StubResults(model)

\* How the remote answered, as a string: the status, the transport failure,
\* or "stub" when no HTTP request is made.
HttpOf(c, answer) ==
    IF c # "SleepmeApiClient" THEN "stub"
    ELSE IF answer.kind = "response" THEN ToString(answer.status)
    ELSE answer.kind

\* Whether the body of the remote's response fits the record schema.
BodyOf(c, answer) ==
    IF c # "SleepmeApiClient" \/ answer.kind # "response" THEN "none"
    ELSE IF answer.body = Malformed THEN "malformed" ELSE "valid"

\* A client operation is started: the real client sends a request, the
\* stand-in makes none.
ClientStart(c, recorded) ==
    IF c = "SleepmeApiClient" THEN SendRequest(recorded)
    ELSE [limiterChecks |-> 0, allowed |-> TRUE, requests |-> 0, limiter |-> recorded]

ClientGetDevices(c, answer) ==
    IF c = "SleepmeApiClient" THEN AsyncGetDevices(answer) ELSE answer
ClientGetDeviceState(c, answer) ==
    IF c = "SleepmeApiClient" THEN AsyncGetDeviceState(answer) ELSE answer
ClientSet(c, op, answer) ==
    IF c # "SleepmeApiClient" THEN answer
    ELSE IF op = "set_temperature" THEN AsyncSetDeviceTemperature(answer)
    ELSE AsyncSetDeviceMode(answer)

(***************************************************************************)
(* coordinator.py                                                          *)
(***************************************************************************)

Keys(d) == IF d = NoneVal THEN {} ELSE DOMAIN d

\* The entities that listen to the coordinator: climate.py and
\* binary_sensor.py create theirs for every key of coordinator.data.
Listeners(d) == { <<platform, id>> : platform \in {"climate", "binary_sensor"}, id \in Keys(d) }

\* MergeEntry, had the entry been the fetched state alone.
MergeEntryStateOnly(device, state) == state

\* {**device, **data}: the device's fields, then the fetched state's.
MergeEntry(device, state) == state @@ device

\* results[device_id] = {**device, **data}
StoreResult(results, device, state) ==
    (device.id :> MergeEntry(device, state)) @@ results

\* status.model_dump(): the record's fields as a dict.
ModelDump(record) == record

\* SetItem, had the value been written to every entry of the cache.
SetItemEveryEntry(cache, device_id, key, value) ==
    IF cache = NoneVal THEN [data |-> cache, raised |-> "TypeError"]
    ELSE IF device_id \notin DOMAIN cache THEN [data |-> cache, raised |-> "KeyError"]
    ELSE [data |-> [d \in DOMAIN cache |-> (key :> value) @@ cache[d]], raised |-> "none"]

\* SetItem, had the entry been created when the id is not cached.
SetItemCreating(cache, device_id, key, value) ==
    IF cache = NoneVal THEN [data |-> cache, raised |-> "TypeError"]
    ELSE IF device_id \notin DOMAIN cache
         THEN [data |-> (device_id :> (key :> value)) @@ cache, raised |-> "none"]
    ELSE [data |-> [cache EXCEPT ![device_id] = (key :> value) @@ @], raised |-> "none"]

\* self.data[device_id][key] = value, as Python evaluates it: the new cache,
\* or the exception raised by the subscript.
SetItem(cache, device_id, key, value) ==
    IF cache = NoneVal THEN [data |-> cache, raised |-> "TypeError"]
    ELSE IF device_id \notin DOMAIN cache THEN [data |-> cache, raised |-> "KeyError"]
    ELSE [data |-> [cache EXCEPT ![device_id] = (key :> value) @@ @], raised |-> "none"]

\* SetDeviceTemperatureWrite, had it stored the requested temperature.
SetDeviceTemperatureWriteEcho(cache, device_id, temperature, status) ==
    SetItem(cache, device_id, "status",
            [ModelDump(status) EXCEPT !.set_temperature_f = temperature])

\* The statement after the await in async_set_device_temperature.
SetDeviceTemperatureWrite(cache, device_id, temperature, status) ==
    SetItem(cache, device_id, "status", ModelDump(status))

\* The statement after the await in async_set_device_mode.
SetDeviceModeWrite(cache, device_id, mode, status) ==
    SetItem(cache, device_id, "status", ModelDump(status))

CoordinatorWrite(cache, call, status) ==
    IF call.op = "set_temperature"
    THEN SetDeviceTemperatureWrite(cache, call.device, call.temperature, status)
    ELSE SetDeviceModeWrite(cache, call.device, call.mode, status)

\* MutationCall, had it caught the client's exception.
MutationCallSwallowing(cache, call, r) ==
    IF r.ok THEN CoordinatorWrite(cache, call, r.value)
    ELSE [data |-> cache, raised |-> "none"]

\* async_set_device_temperature / async_set_device_mode once the client has
\* answered with r: an exception raised by the await leaves the method
\* before the assignment; otherwise the assignment runs.
MutationCall(cache, call, r) ==
    IF r.ok THEN CoordinatorWrite(cache, call, r.value)
    ELSE [data |-> cache, raised |-> r.error]

\* Listener notifications made by a coordinator mutation method after its
\* write: the methods end at the assignment and make none.
MutationListenerUpdates(cache, call) == 0

\* climate.py: after the coordinator call returns, the calling entity alone
\* writes its own state (async_write_ha_state).
EntityStateWrites(call) ==
    IF call.entity THEN { <<"climate", call.device>> } ELSE {}

\* climate.py async_setup_entry and SleepmeClimate.__init__: one entity per
\* key of coordinator.data, its _target_temperature read from the cache.
CreateTargets(cache) ==
    [ d \in Keys(cache) |-> cache[d].control.set_temperature_f ]

\* The entities' target temperatures once a refresh has moved the cache from
\* `old` to `new`.  The platform is set up when the first refresh has filled
\* the cache; after that a refresh notifies the entities, which write their
\* state as it is: no listener of SleepmeClimate assigns _target_temperature.
TargetsAfterRefresh(targets, old, new) ==
    IF old = NoneVal /\ new # NoneVal THEN CreateTargets(new) ELSE targets

\* async_set_temperature after its await: the requested temperature (the
\* call's argument, already int(temperature)) is assigned when the
\* coordinator call returned, and nothing is when it raised.
TargetsAfterCall(targets, call, raised) ==
    IF call.entity /\ call.op = "set_temperature" /\ raised = "none"
    THEN [targets EXCEPT ![call.device] = call.temperature]
    ELSE targets

\* UpdateDataRaises, had the first except clause been missing.
UpdateDataRaisesUnconverted(error) == error

\* UpdateDataRaises, had the first except clause caught every client error.
UpdateDataRaisesAllAuth(error) == "ConfigEntryAuthFailed"

\* The except clauses of _async_update_data: the exception that leaves the
\* method when a state fetch raised `error`.
UpdateDataRaises(error) ==
    IF error = AuthenticationError THEN "ConfigEntryAuthFailed" ELSE error

\* CycleAfterError, had a failed fetch been awaited again until it succeeds.
CycleAfterErrorRetrying(c, error) == c

\* CycleAfterError, had a failed fetch been skipped and the loop continued.
CycleAfterErrorIsolating(c, error) ==
    IF error = AuthenticationError
    THEN [state |-> "Halted", idx |-> 0, results |-> <<>>, raised |-> "ConfigEntryAuthFailed"]
    ELSE IF c.idx < Len(devices)
         THEN [c EXCEPT !.idx = c.idx + 1]
         ELSE [state |-> "Idle", idx |-> 0, results |-> c.results, raised |-> "none"]

\* The cycle after a state fetch raised `error`: every except clause raises,
\* so the loop is left and nothing is returned.
CycleAfterError(c, error) ==
    [ state   |-> IF UpdateDataRaises(error) = "ConfigEntryAuthFailed"
                  THEN "Halted" ELSE "Idle",
      idx     |-> 0,
      results |-> <<>>,
      raised  |-> UpdateDataRaises(error) ]

\* The cycle after a state fetch returned `state` for devices[c.idx].
CycleAfterFetch(c, devs, state) ==
    IF c.idx < Len(devs)
    THEN [c EXCEPT !.idx = c.idx + 1, !.results = StoreResult(c.results, devs[c.idx], state)]
    ELSE [ state   |-> "Idle",
           idx     |-> 0,
           results |-> StoreResult(c.results, devs[c.idx], state),
           raised  |-> "none" ]

\* DataUpdateCoordinator.data after the cycle moved to `c`: the returned
\* results replace the cache when the cycle succeeded.
DataAfterCycle(cache, c) ==
    IF c.state # "Fetching" /\ c.raised = "none" THEN c.results ELSE cache

\* The ids of the cache entries in which two caches differ.
ChangedIds(old, new) ==
    { d \in Keys(old) \cup Keys(new) :
         d \notin Keys(old) \/ d \notin Keys(new) \/ old[d] # new[d] }

NoEvent ==
    [ type |-> "init", op |-> "none", device |-> "none",
      http |-> "none", body |-> "none", result |-> "none", value |-> NoneVal, raised |-> "none",
      changed |-> {}, listenerUpdates |-> 0, stateWrites |-> {},
      started |-> 0, limiterChecks |-> 0, allowed |-> TRUE, requests |-> 0 ]

\* The event of a step that starts one client operation.
WithStart(e, st) ==
    [e EXCEPT !.started = 1, !.limiterChecks = st.limiterChecks,
              !.allowed = st.allowed, !.requests = st.requests]

IdleCycle ==
    [ state |-> "Idle", idx |-> 0, results |-> <<>>, raised |-> "none" ]

Init ==
    /\ client \in Clients
    /\ remote \in RemoteCollections
    /\ limiter = 0
    /\ devices = NoDevices
    /\ data = NoneVal
    /\ cycle = IdleCycle
    /\ pending = {}
    /\ target = NoneVal
    /\ ev = NoEvent

\* A successful answer to the device listing carries the collection the
\* remote holds at that moment.
FromRemote(c, answer, collection) ==
    IF c = "SleepmeApiClient"
    THEN answer.body # Malformed => answer.body.devices = collection
    ELSE answer.ok => answer.value = EligibleDevices(collection)

\* CycleDevices, had the cycle listed the remote's devices anew.
CycleDevicesRelisted(devs) == EligibleDevices(remote)

\* `for device in self._devices`: the list a refresh cycle iterates.
CycleDevices(devs) == devs

\* _async_setup: the device list is fetched and kept.
Setup ==
    /\ devices = NoDevices
    /\ \E answer \in Answers(client, "SleepmeDevices") :
          LET r == ClientGetDevices(client, answer) IN
          /\ FromRemote(client, answer, remote)
          /\ devices' = IF r.ok THEN r.value ELSE devices
          /\ ev' = WithStart([NoEvent EXCEPT !.type = "setup", !.op = "list_devices",
                                   !.http = HttpOf(client, answer),
                                   !.body = BodyOf(client, answer),
                                   !.result = IF r.ok THEN "ok" ELSE r.error,
                                   !.raised = r.error],
                             ClientStart(client, limiter))
    /\ limiter' = ClientStart(client, limiter).limiter
    /\ UNCHANGED <<client, remote, data, cycle, pending, target>>

\* _async_update_data up to its first await.  With no known device the loop
\* body never runs and the empty results are returned at once.
\* The steps that end a refresh or a mutation call come in two forms: with
\* `entities` false they are the steps of the coordinator and its client, the
\* climate entities' own fields left aside (target stays as it is); with
\* `entities` true they also carry what the climate platform does in the
\* same step to SleepmeClimate._target_temperature.
StartRefreshOf(entities) ==
    /\ devices # NoDevices
    /\ cycle.state # "Fetching"
    /\ IF Len(CycleDevices(devices)) = 0
       THEN /\ cycle' = IdleCycle
            /\ data' = <<>>
            /\ target' = IF entities THEN TargetsAfterRefresh(target, data, <<>>)
                          ELSE target
            /\ ev' = [NoEvent EXCEPT !.type = "refresh", !.result = "ok",
                                     !.listenerUpdates = 1]
            /\ limiter' = limiter
       ELSE /\ cycle' = [IdleCycle EXCEPT !.state = "Fetching", !.idx = 1]
            /\ data' = data
            /\ target' = target
            /\ ev' = WithStart([NoEvent EXCEPT !.type = "start"],
                               ClientStart(client, limiter))
            /\ limiter' = ClientStart(client, limiter).limiter
    /\ UNCHANGED <<client, remote, devices, pending>>

StartRefresh == StartRefreshOf(FALSE)

\* The await of async_get_device_state returns or raises, and the method
\* runs on to its next await or to its end.
FetchResponseOf(entities) ==
    /\ cycle.state = "Fetching"
    /\ \E answer \in Answers(client, "SleepmeDeviceState") :
          LET r == ClientGetDeviceState(client, answer)
              c == IF r.ok THEN CycleAfterFetch(cycle, CycleDevices(devices), r.value)
                           ELSE CycleAfterError(cycle, r.error)
          IN
          /\ cycle' = IF c.state = "Fetching" THEN c
                       ELSE [c EXCEPT !.results = <<>>, !.raised = "none"]
          /\ data' = DataAfterCycle(data, c)
          /\ target' = IF entities
                        THEN TargetsAfterRefresh(target, data, DataAfterCycle(data, c))
                        ELSE target
          /\ limiter' = IF c.state = "Fetching"
                         THEN ClientStart(client, limiter).limiter ELSE limiter
          /\ ev' = LET e == [NoEvent EXCEPT !.type = "fetch", !.op = "get_state",
                                   !.device = CycleDevices(devices)[cycle.idx].id,
                                   !.http = HttpOf(client, answer),
                                   !.body = BodyOf(client, answer),
                                   !.result = IF r.ok THEN "ok" ELSE r.error,
                                   !.value = r.value,
                                   !.raised = c.raised,
                                   !.changed = ChangedIds(data, DataAfterCycle(data, c)),
                                   !.listenerUpdates =
                                       IF c.state # "Fetching" /\ c.raised = "none"
                                       THEN 1 ELSE 0]
                   IN IF c.state = "Fetching"
                      THEN WithStart(e, ClientStart(client, limiter)) ELSE e
    /\ UNCHANGED <<client, remote, devices, pending>>

FetchResponse == FetchResponseOf(FALSE)

\* async_timeout.timeout(10) around the loop expires: TimeoutError is no
\* SleepmeApiClientError and leaves the method as it is.
CycleTimeout ==
    /\ cycle.state = "Fetching"
    /\ cycle' = IdleCycle
    /\ ev' = [NoEvent EXCEPT !.type = "cycle_timeout", !.raised = "TimeoutError"]
    /\ UNCHANGED <<client, remote, limiter, devices, data, pending, target>>

\* A mutation call is made and awaits the client: by the climate entity of
\* the device when the device is cached (async_set_temperature,
\* async_set_hvac_mode), directly on the coordinator otherwise.  With the
\* device list <<DevB>>, "d1" is an id the coordinator does not know.
\* The callers are created from coordinator.data (climate.py async_setup_entry),
\* so calls are made once the first refresh has filled the cache.
CallDeviceIds == {"d1", "d2"}
Calls ==
    [ op : {"set_temperature"}, device : CallDeviceIds, temperature : RequestedTemperatures,
      entity : BOOLEAN ]
    \cup [ op : {"set_mode"}, device : CallDeviceIds, mode : RequestedModes, entity : BOOLEAN ]

IssueCall ==
    /\ Cardinality(pending) < MaxPending
    /\ data # NoneVal
    /\ \E call \in Calls :
          /\ call.entity = (call.device \in Keys(data))
          /\ call \notin pending
          /\ pending' = pending \cup {call}
          /\ ev' = WithStart([NoEvent EXCEPT !.type = "issue"],
                             ClientStart(client, limiter))
    /\ limiter' = ClientStart(client, limiter).limiter
    /\ UNCHANGED <<client, remote, devices, data, cycle, target>>

\* PendingAfterAnswer, had a call whose request failed been kept awaiting
\* another answer.
PendingAfterAnswerRetrying(calls, call, r) ==
    IF r.ok THEN calls \ {call} ELSE calls

\* The calls still awaiting the client once `call` got its answer `r`: the
\* coordinator method returns or raises, either way the call is over.
PendingAfterAnswer(calls, call, r) == calls \ {call}

\* The client answers a mutation call: the coordinator method writes the
\* cache or lets the exception through, and the calling entity goes on.
CompleteCallOf(entities) ==
    \E call \in pending :
    \E answer \in Answers(client, "SleepmeDeviceControl") :
       LET r == ClientSet(client, call.op, answer)
           w == MutationCall(data, call, r)
       IN
       /\ pending' = PendingAfterAnswer(pending, call, r)
       /\ data' = w.data
       /\ target' = IF entities THEN TargetsAfterCall(target, call, w.raised)
                     ELSE target
       /\ ev' = [NoEvent EXCEPT !.type = "call", !.op = call.op,
                                !.device = call.device,
                                !.http = HttpOf(client, answer),
                                !.body = BodyOf(client, answer),
                                !.result = IF r.ok THEN "ok" ELSE r.error,
                                !.value = r.value,
                                !.raised = w.raised,
                                !.changed = ChangedIds(data, w.data),
                                !.listenerUpdates =
                                    IF w.raised = "none"
                                    THEN MutationListenerUpdates(data, call) ELSE 0,
                                !.stateWrites =
                                    IF w.raised = "none"
                                    THEN EntityStateWrites(call) ELSE {}]
       /\ UNCHANGED <<client, remote, limiter, devices, cycle>>

CompleteCall == CompleteCallOf(FALSE)

\* Devices are added to or removed from the remote's collection.
RemoteChanges ==
    /\ \E collection \in RemoteCollections \ {remote} : remote' = collection
    /\ ev' = [NoEvent EXCEPT !.type = "remote"]
    /\ UNCHANGED <<client, limiter, devices, data, cycle, pending, target>>

\* Time passes and the oldest recorded request leaves the limiter's window.
WindowExpires ==
    /\ limiter > 0
    /\ limiter' = limiter - 1
    /\ ev' = [NoEvent EXCEPT !.type = "window"]
    /\ UNCHANGED <<client, remote, devices, data, cycle, pending, target>>

\* SleepmeClimate.async_update, run for one entity by the update service:
\* the refresh it requests is a refresh cycle like any other and is over, or
\* was not made, when the await returns; the entity then copies the cached
\* target temperature.
AsyncUpdate ==
    /\ target # NoneVal
    /\ cycle.state # "Fetching"
    /\ \E d \in DOMAIN target :
          /\ target' = [target EXCEPT ![d] = data[d].control.set_temperature_f]
          /\ ev' = [NoEvent EXCEPT !.type = "update", !.device = d]
    /\ UNCHANGED <<client, remote, limiter, devices, data, cycle, pending>>

Next ==
    \/ Setup
    \/ StartRefresh
    \/ FetchResponse
    \/ CycleTimeout
    \/ IssueCall
    \/ CompleteCall

Spec == Init /\ [][Next]_vars

\* The same program with a remote whose device collection changes over time.
NextRemote ==
    \/ Next
    \/ RemoteChanges

SpecRemote == Init /\ [][NextRemote]_vars

\* The program while the limiter's window slides.
NextLimiter ==
    \/ Next
    \/ WindowExpires

SpecLimiter == Init /\ [][NextLimiter]_vars

\* The coordinator together with the climate entities and their
\* _target_temperature, entities being updated on request as well.
StartRefreshWithEntities == StartRefreshOf(TRUE)
FetchResponseWithEntities == FetchResponseOf(TRUE)
CompleteCallWithEntities == CompleteCallOf(TRUE)

NextEntity ==
    \/ Setup
    \/ StartRefreshWithEntities
    \/ FetchResponseWithEntities
    \/ CycleTimeout
    \/ IssueCall
    \/ CompleteCallWithEntities
    \/ AsyncUpdate

SpecEntity == Init /\ [][NextEntity]_vars

(***************************************************************************)
(* Properties                                                              *)
(***************************************************************************)

KnownIds == { devices[i].id : i \in 1..Len(devices) }

\* The last step was a state fetch of a refresh cycle that raised `errors`.
FetchFailedWith(e, errors) == e.type = "fetch" /\ e.result \in errors

\* The last step was a mutation call that returned to its caller.
CallSucceeded(e) == e.type = "call" /\ e.result = "ok" /\ e.raised = "none"

C2_ControlReflectsServerAnswer ==
    CallSucceeded(ev) => data[ev.device]["control"] = ev.value

\* C3: whatever the operation, a 401 or 403 response leaves api_wrapper as
\* AuthenticationError and a 429 response as RateLimitError.
C3_AuthAndRateLimitClassified ==
    /\ ev.http \in {"401", "403"} => ev.result = AuthenticationError
    /\ ev.http = "429" => ev.result = RateLimitError

\* C4: when the client's state fetch raises AuthenticationError the cycle
\* stops there (no fetch for the devices after it), ConfigEntryAuthFailed
\* is raised to the caller, and no cache entry is changed.
C4_AuthErrorHaltsCycle ==
    FetchFailedWith(ev, {AuthenticationError})
    => /\ cycle.state = "Halted"
       /\ ev.raised = "ConfigEntryAuthFailed"
       /\ ev.changed = {}
       /\ ev.listenerUpdates = 0

\* C4 witness: in a cycle over two devices with a filled cache, the fetch of
\* the first device raised AuthenticationError and the cycle is Halted.
C4_Witness ==
    /\ FetchFailedWith(ev, {AuthenticationError})
    /\ Len(devices) = 2
    /\ ev.device = devices[1].id
    /\ data # NoneVal
    /\ cycle.state = "Halted"

\* C5: when the client call of a coordinator mutation raises a classified
\* error, the cache is left as it was and that same error reaches the caller.
C5_FailedCallLeavesCache ==
    (ev.type = "call" /\ ev.result \in ClassifiedErrors)
    => /\ ev.changed = {}
       /\ ev.raised = ev.result

\* C5 witness: a mutation call on a cached device failed with
\* CommunicationError.
C5_Witness ==
    /\ ev.type = "call"
    /\ ev.result = CommunicationError
    /\ ev.raised = CommunicationError
    /\ ev.device \in Keys(data)

\* C6: a successful coordinator mutation call notifies the coordinator's
\* listeners exactly once (all of them), and a failed one notifies nobody.
C6_CallNotifiesListenersOnce ==
    ev.type = "call"
    => IF ev.raised = "none"
       THEN ev.listenerUpdates = 1
       ELSE ev.listenerUpdates = 0 /\ ev.stateWrites = {}

\* C7: a state fetch that raises a classified error other than
\* AuthenticationError makes the cycle a failed update: the same error is
\* raised to the scheduler (not ConfigEntryAuthFailed, not success) and the
\* cycle hands over no new cache contents.
C7_OtherErrorsFailTheUpdate ==
    FetchFailedWith(ev, ClassifiedErrors \ {AuthenticationError})
    => /\ ev.raised = ev.result
       /\ cycle.state = "Idle"
       /\ cycle.results = <<>>
       /\ ev.changed = {}

\* C7 witness: a state fetch raised RateLimitError and the cycle is over,
\* not Halted.
C7_Witness ==
    /\ FetchFailedWith(ev, {RateLimitError})
    /\ ev.raised = RateLimitError
    /\ cycle.state = "Idle"

\* C8: in every cache state, each sub-record of each device is one whole
\* record of its own kind, as one server response carried it.
C8_SubRecordsWholeAndOfTheirKind ==
    \A d \in Keys(data) :
        /\ data[d]["about"] \in AboutRecords
        /\ data[d]["control"] \in ControlRecords
        /\ data[d]["status"] \in StatusRecords

\* C9: every sub-record a mutation call changes in the cache becomes the
\* record the server returned for that call, whatever the caller asked for.
C9_OnlyServerValuesWritten ==
    [][ ev'.type = "call"
        => \A d \in Keys(data') :
              IF d \in Keys(data)
              THEN \A k \in DOMAIN data'[d] :
                      (k \notin DOMAIN data[d] \/ data'[d][k] # data[d][k])
                      => (ev'.result = "ok" /\ data'[d][k] = ev'.value)
              ELSE FALSE ]_vars

\* C9 witness: a set-temperature call (72 requested) succeeded with the
\* server answering 70, and the cache holds the server's record.
C9_Witness ==
    /\ CallSucceeded(ev)
    /\ ev.op = "set_temperature"
    /\ ev.value.set_temperature_f = 70
    /\ 70 \notin RequestedTemperatures
    /\ \E k \in {"about", "control", "status"} : data[ev.device][k] = ev.value

\* C10: once a refresh cycle has filled the cache, its keys are exactly the
\* ids of the eligible devices found at setup.
C10_CacheKeysAreKnownDevices ==
    data # NoneVal => DOMAIN data = KnownIds

\* C10 witness: with the cache filled, a mutation call on an id that is not
\* a known device came back from the server and failed on the cache lookup.
C10_Witness ==
    /\ data # NoneVal
    /\ ev.type = "call"
    /\ ev.result = "ok"
    /\ ev.raised = "KeyError"
    /\ ev.device \notin KnownIds

\* C11: the device list is fetched in setup only and, once set, never
\* changes: no later step lists devices or assigns _devices, and every state
\* fetch of a refresh cycle is for an id of that list, whatever the remote's
\* collection has become.
C11_DeviceListFixedAfterSetup ==
    [][ /\ devices # NoDevices => (devices' = devices /\ ev'.op # "list_devices")
        /\ ev'.type = "fetch" => ev'.device \in { devices[i].id : i \in 1..Len(devices) }
      ]_vars

\* C11 witness: the remote's collection no longer yields the list kept at
\* setup, and a refresh cycle has just fetched the state of a known device.
C11_Witness ==
    /\ devices # NoDevices
    /\ EligibleDevices(remote) # devices
    /\ ev.type = "fetch"
    /\ ev.device \in KnownIds

\* C12: every operation of the real client consults the rate limiter exactly
\* once before it sends, and sends its one request whether the limiter
\* permits or denies; after a denial the operation is in flight like any
\* other (the call is pending, the cycle is fetching), neither failed nor
\* put off.
C12_LimiterConsultedOnceNeverBlocks ==
    client = "SleepmeApiClient" =>
        /\ ev.limiterChecks = ev.started
        /\ ev.requests = ev.started
        /\ ev.type \in {"setup", "start", "issue"} => ev.started = 1
        /\ ev.type = "issue" => pending # {}
        /\ ev.type = "start" => cycle.state = "Fetching"
        /\ ev.type = "fetch" /\ ev.started = 1 => cycle.state = "Fetching"

\* A denied mutation request that was sent all the same, after the window
\* had permitted an earlier one.
C12_Witness ==
    /\ client = "SleepmeApiClient"
    /\ ev.type = "issue"
    /\ ev.limiterChecks = 1
    /\ ~ev.allowed
    /\ ev.requests = 1
    /\ pending # {}

\* C13: the real client classifies its failures: a non-success status other
\* than 401, 403 and 429 is a CommunicationError, and so are a timeout, a
\* connection failure and a DNS failure; a success status whose body fails
\* validation is the generic ApiError; and a record is returned only for a
\* success status with a valid body.
C13_FailuresClassified ==
    client = "SleepmeApiClient" /\ ev.http # "none" =>
        /\ ev.http \in {"300", "500"} => ev.result = CommunicationError
        /\ ev.http \in {"timeout", "connection", "dns"} => ev.result = CommunicationError
        /\ ev.http = "200" /\ ev.body = "malformed" => ev.result = ApiError
        /\ ev.result = "ok" => ev.http = "200" /\ ev.body = "valid"

\* The positions of the remote collection that carry the capability tag.
TaggedPositions ==
    { i \in 1..Len(remote) :
        \E a \in 1..Len(remote[i].attachments) : remote[i].attachments[a] = CapabilityTag }

\* C14: the list the real client's async_get_devices returned holds exactly
\* the remote's devices that carry the CHILIPAD_PRO tag, each once and in the
\* remote's order: its k-th element is the k-th tagged device of the remote
\* collection.  A device without the tag, or without attachments, is not in it.
C14_DeviceListIsTaggedSubsequence ==
    client = "SleepmeApiClient" /\ devices # NoDevices =>
        /\ Len(devices) = Cardinality(TaggedPositions)
        /\ \A k \in 1..Len(devices) :
              \E i \in TaggedPositions :
                  /\ Cardinality({ j \in TaggedPositions : j <= i }) = k
                  /\ devices[k] = remote[i]

\* The remote holds three devices, one of them untagged, and setup got two.
C14_Witness ==
    /\ client = "SleepmeApiClient"
    /\ ev.type = "setup"
    /\ ev.result = "ok"
    /\ Len(remote) = 3
    /\ Cardinality(TaggedPositions) = 2
    /\ Len(devices) = 2

\* The scheduling the refresh cycle relies on: a request that is awaited is
\* eventually answered or expires (async_timeout.timeout(TIMEOUT) in
\* api_wrapper), so the awaiting step is eventually taken.
NextCycle ==
    \/ Setup
    \/ StartRefresh
    \/ FetchResponse
    \/ CycleTimeout

\* The refresh cycles on their own, no mutation call being made.
SpecFair == Init /\ [][NextCycle]_vars /\ WF_vars(FetchResponse)

\* C15: every refresh cycle that starts eventually ends, idle (a success or a
\* failed update) or halted (an authentication failure), given that each
\* request is eventually answered or expires; and a request of the real
\* client that expires ends as a CommunicationError.
C15_CycleEnds ==
    /\ (cycle.state = "Fetching") ~> (cycle.state \in {"Idle", "Halted"})
    /\ [](client = "SleepmeApiClient" /\ ev.http = "timeout"
            => ev.result = CommunicationError)

\* A cycle that ended because a state request expired.
C15_Witness ==
    /\ client = "SleepmeApiClient"
    /\ ev.type = "fetch"
    /\ ev.http = "timeout"
    /\ ev.result = CommunicationError
    /\ cycle.state = "Idle"
    /\ ev.raised = CommunicationError

\* C16: with the real client between the coordinator and the remote, a 401
\* or 403 answer to a state request of a refresh cycle ends the cycle in the
\* authentication-failure condition (ConfigEntryAuthFailed, halted) and not
\* in an ordinary failed update.
C16_RemoteAuthFailureHaltsCycle ==
    client = "SleepmeApiClient" /\ ev.type = "fetch" /\ ev.http \in {"401", "403"} =>
        /\ cycle.state = "Halted"
        /\ ev.raised = "ConfigEntryAuthFailed"

\* The entry the claim of C17 describes for a device and a fetched state.
ExpectedEntry(device, state) ==
    [ id |-> device.id, name |-> device.name, attachments |-> device.attachments,
      about |-> state.about, control |-> state.control, status |-> state.status ]

\* C17: a refresh cycle that succeeds replaces every cache entry wholesale.
\* Each successful state fetch stores, for its device, the identity record
\* of setup merged with the about, control and status records that fetch
\* returned, and leaves what the cycle stored for the devices before it; the
\* fetch that completes the cycle makes the cache exactly these entries, one
\* per known device, whatever the cache held before.  The temperatures of
\* an entry are those of the fetched records.
C17_SuccessfulCycleReplacesCache ==
    [][ ev'.type = "fetch" /\ ev'.result = "ok" =>
          LET i == CHOOSE k \in 1..Len(devices) : devices[k].id = ev'.device
              entry == ExpectedEntry(devices[i], ev'.value)
          IN IF cycle'.state = "Fetching"
             THEN /\ cycle'.results[ev'.device] = entry
                  /\ \A o \in DOMAIN cycle.results : cycle'.results[o] = cycle.results[o]
                  /\ data' = data
             ELSE /\ DOMAIN data' = KnownIds
                  /\ data'[ev'.device] = entry
                  /\ data'[ev'.device].control.set_temperature_f
                         = ev'.value.control.set_temperature_f
                  /\ data'[ev'.device].status.water_temperature_f
                         = ev'.value.status.water_temperature_f
                  /\ \A o \in KnownIds \ {ev'.device} : data'[o] = cycle.results[o]
      ]_vars

\* A cycle over two devices succeeded and both entries of the cache are new.
C17_Witness ==
    /\ ev.type = "fetch"
    /\ ev.result = "ok"
    /\ ev.listenerUpdates = 1
    /\ Len(devices) = 2
    /\ ev.changed = KnownIds
    /\ data[ev.device] = ExpectedEntry(devices[2], ev.value)

\* C18: nothing is retried.  A refresh cycle sends its state requests down
\* the device list, the next one only after the one before it succeeded, so
\* each known device gets at most one; a step that starts a client
\* operation sends one request; the answer to a mutation call, good or bad,
\* ends the call without another request; and after a failed state fetch
\* the cycle is over and nothing is sent.
C18_NoRetry ==
    /\ ev.requests <= ev.started
    /\ ev.started <= 1
    /\ ev.type = "start" /\ ev.started = 1 => cycle.state = "Fetching" /\ cycle.idx = 1
    /\ ev.type = "fetch" /\ ev.started = 1 =>
          /\ ev.result = "ok"
          /\ cycle.state = "Fetching"
          /\ cycle.idx \in 2..Len(devices)
          /\ ev.device = devices[cycle.idx - 1].id
          /\ DOMAIN cycle.results = { devices[i].id : i \in 1..(cycle.idx - 1) }
    /\ ev.type = "fetch" /\ ev.result # "ok" => ev.started = 0 /\ cycle.state # "Fetching"
    /\ ev.type = "issue" =>
          /\ ev.started = 1
          /\ client = "SleepmeApiClient" => ev.requests = 1
    /\ ev.type = "call" =>
          /\ ev.started = 0
          /\ \A c \in pending : ~(c.op = ev.op /\ c.device = ev.device)

\* A mutation request of the real client failed and the call is over.
C18_Witness ==
    /\ client = "SleepmeApiClient"
    /\ ev.type = "call"
    /\ ev.result = CommunicationError
    /\ ev.requests = 0
    /\ pending = {}

\* C19: a mutation call on a cached device that succeeds leaves the device's
\* identity fields, its about sub-record and its sensed status sub-record
\* (is_connected, is_water_low, water level and temperatures) as they were,
\* so the entity's availability and the low-water sensor read the same
\* right after the call.
C19_CallLeavesIdentityAboutStatus ==
    [][ CallSucceeded(ev') /\ ev'.device \in Keys(data) =>
          /\ data'[ev'.device].id = data[ev'.device].id
          /\ data'[ev'.device].name = data[ev'.device].name
          /\ data'[ev'.device].attachments = data[ev'.device].attachments
          /\ data'[ev'.device].about = data[ev'.device].about
          /\ data'[ev'.device].status = data[ev'.device].status
      ]_vars

\* C20: a mutation call on a device, whether it succeeds or fails, changes
\* no cache entry but that device's, and a call on an id that is not a key
\* of the cache changes no entry at all.
C20_CallTouchesOnlyItsDevice ==
    ev.type = "call" =>
        /\ ev.changed \subseteq {ev.device}
        /\ ev.device \notin Keys(data) => ev.changed = {}
        /\ ev.changed \subseteq Keys(data)

\* A call changed the entry of its device in a cache of two devices.
C20_Witness ==
    /\ ev.type = "call"
    /\ ev.result = "ok"
    /\ Cardinality(Keys(data)) = 2
    /\ ev.changed = {ev.device}

\* The climate entity of device d has no call in progress.
NoCallInProgress(calls, d) == \A c \in calls : ~(c.entity /\ c.device = d)

\* C21: whenever no call on a climate entity is in progress, the entity's
\* target_temperature equals the cached control.set_temperature_f of its
\* device, be it after a refresh cycle that changed the cached value or
\* after a successful set-temperature call that the server answered with
\* another value than the requested one; and a failed set-temperature call
\* leaves the entity's target_temperature as it was.
C21_TargetTemperatureIsCachedSetpoint ==
    [][ /\ target' # NoneVal =>
              \A d \in DOMAIN target' :
                  NoCallInProgress(pending', d)
                      => target'[d] = data'[d].control.set_temperature_f
        /\ ev'.type = "call" /\ ev'.op = "set_temperature" /\ ev'.raised # "none"
              => target' = target
      ]_vars

====
